---- MODULE Spec2Model ----
(***************************************************************************)
(* The PSP34 contract of src/lib.rs as a state machine: the token ledger,  *)
(* the artist registry and the artist-id counter, with one action per      *)
(* #[ink(message)].  A message that panics (unwrap on None, assert!,       *)
(* expect) traps, and the host reverts the whole call.                     *)
(***************************************************************************)
EXTENDS Integers, Sequences, FiniteSets, TLC

\* ------------------------------------------------------------ bounds
MaxCounter == 1        \* increment_artist_id is explored up to this value
TestPrice == 100       \* the price the tests mint with

TokenIds == {0, 1}
ArtistIds == {0, 1}
Accounts == {"caller1", "caller2"}
Names == {"Artist 1"}
\* The prices mint and set_price are called with.
Prices == {0, TestPrice}
\* The asking prices of a listing: 15 is not a multiple of 10, so that
\* value / 10 truncates.
SalePrices == {15, TestPrice}
\* The values attached to a buy call: transferred_balance().
Values == Prices \cup SalePrices

\* What the environment's transfer(account, amount) can answer during one buy.
XferOutcomes == {"ok", "artist_fails", "buyer_fails"}

\* ------------------------------------------------------------ data model
NoToken == [kind |-> "None"]
NoArtist == [kind |-> "None"]
Owned(price, owner) == [kind |-> "Owned", price |-> price, owner |-> owner]
ForSale(price, artist) == [kind |-> "ForSale", price |-> price, artist |-> artist]
Artist(name, account_id) == [kind |-> "Artist", name |-> name, account_id |-> account_id]

\* tokens, artists, next_artist_id: the fields of struct PSP34 (lib.rs:40-44).
\* last: the message call that ended last, and how.  sent: the outbound
\* transfers (lib.rs:123-128) that call made.
VARIABLES tokens, artists, next_artist_id, last, sent

vars == <<tokens, artists, next_artist_id, last, sent>>

\* The contract's storage as one value.
Storage == [tokens |-> tokens, artists |-> artists, next_artist_id |-> next_artist_id]

NoRet == "none"
NoCaller == "-"

\* The record of a call: the message, the calling principal and the id it was
\* given.  caller is recorded by the handlers that read self.env().caller().
Call(op, caller, id) == [op |-> op, caller |-> caller, id |-> id]

\* The result of running a handler's body on a storage value: how it ended
\* (with the panic or debug_println message), the storage it leaves, the
\* outbound transfers it made and what it returns.
Res(outcome, msg, st, out, ret) ==
    [outcome |-> outcome, msg |-> msg, st |-> st, sent |-> out, ret |-> ret]

Ok(st, out, ret) == Res("ok", "", st, out, ret)
Rejected(st, msg) == Res("rejected", msg, st, <<>>, NoRet)
Abort(st, out, msg) == Res("abort", msg, st, out, NoRet)

\* The panic of Option::unwrap() on None.
UnwrapNone == "unwrap on None"

Payment(to, amount) == [to |-> to, amount |-> amount]

\* ------------------------------------------------------------ handlers
\* set_token_artist with the bug of resetting the price of the record.
set_token_artist_body_resets_price(st, id, artist_id) ==
    LET token == st.tokens[id] IN
    IF token = NoToken THEN Abort(st, <<>>, UnwrapNone)
    ELSE IF token.kind = "Owned"
         THEN Rejected(st, "Only for sale tokens can be associated with an artist")
         ELSE Ok([st EXCEPT !.tokens[id] = ForSale(0, artist_id)],
                 <<>>, NoRet)

\* set_token_artist: unwrap on the lookup, then only a ForSale record changes.
set_token_artist_body(st, id, artist_id) ==
    LET token == st.tokens[id] IN
    IF token = NoToken THEN Abort(st, <<>>, UnwrapNone)
    ELSE IF token.kind = "Owned"
         THEN Rejected(st, "Only for sale tokens can be associated with an artist")
         ELSE Ok([st EXCEPT !.tokens[id] = ForSale(token.price, artist_id)],
                 <<>>, NoRet)

\* mint with the bug of refusing an id that is already in the ledger.
mint_body_keeps_existing(st, caller, id, price, artist_id) ==
    IF st.tokens[id] # NoToken
    THEN Rejected(st, "Token already minted")
    ELSE Ok([st EXCEPT !.tokens[id] = Owned(price, caller)], <<>>, NoRet)

\* mint: insert Owned{price, caller}, then call set_token_artist.
mint_body(st, caller, id, price, artist_id) ==
    LET st1 == [st EXCEPT !.tokens[id] = Owned(price, caller)]
        r == set_token_artist_body(st1, id, artist_id)
    IN  IF r.outcome = "abort" THEN r ELSE Ok(r.st, <<>>, NoRet)

\* transfer with the bug of carrying the old price over to the new owner.
transfer_body_keeps_price(st, caller, id, to) ==
    LET token == st.tokens[id] IN
    IF token = NoToken THEN Abort(st, <<>>, UnwrapNone)
    ELSE IF token.kind = "Owned" /\ token.owner = caller
         THEN Ok([st EXCEPT !.tokens[id] = Owned(token.price, to)], <<>>, NoRet)
         ELSE Rejected(st, "Transfer not allowed")

\* transfer with the bug of treating a missing token like a refused call.
transfer_body_ignores_missing(st, caller, id, to) ==
    LET token == st.tokens[id] IN
    IF token = NoToken THEN Rejected(st, "Transfer not allowed")
    ELSE IF token.kind = "Owned" /\ token.owner = caller
         THEN Ok([st EXCEPT !.tokens[id] = Owned(0, to)], <<>>, NoRet)
         ELSE Rejected(st, "Transfer not allowed")

transfer_body(st, caller, id, to) ==
    LET token == st.tokens[id] IN
    IF token = NoToken THEN Abort(st, <<>>, UnwrapNone)
    ELSE IF token.kind = "Owned" /\ token.owner = caller
         THEN Ok([st EXCEPT !.tokens[id] = Owned(0, to)], <<>>, NoRet)
         ELSE Rejected(st, "Transfer not allowed")

\* set_price with the bug of treating a price of 0 as "no price given".
set_price_body_skips_zero(st, caller, id, price) ==
    LET token == st.tokens[id] IN
    IF token = NoToken THEN Abort(st, <<>>, UnwrapNone)
    ELSE IF token.kind = "Owned" /\ token.owner = caller
         THEN IF price = 0 THEN Ok(st, <<>>, NoRet)
              ELSE Ok([st EXCEPT !.tokens[id] = Owned(price, token.owner)], <<>>, NoRet)
         ELSE Rejected(st, "Set price not allowed")

\* set_price with the bug of leaving out the owner guard of its match arm.
set_price_body_any_caller(st, caller, id, price) ==
    LET token == st.tokens[id] IN
    IF token = NoToken THEN Abort(st, <<>>, UnwrapNone)
    ELSE IF token.kind = "Owned"
         THEN Ok([st EXCEPT !.tokens[id] = Owned(price, token.owner)], <<>>, NoRet)
         ELSE Rejected(st, "Set price not allowed")

set_price_body(st, caller, id, price) ==
    LET token == st.tokens[id] IN
    IF token = NoToken THEN Abort(st, <<>>, UnwrapNone)
    ELSE IF token.kind = "Owned" /\ token.owner = caller
         THEN Ok([st EXCEPT !.tokens[id] = Owned(price, token.owner)], <<>>, NoRet)
         ELSE Rejected(st, "Set price not allowed")

\* artist_account: unwrap on the lookup.  An id outside ArtistIds was never
\* inserted by any run of the model, so its lookup finds nothing.
artist_account_body(st, id) ==
    IF id \notin DOMAIN st.artists \/ st.artists[id] = NoArtist
    THEN Abort(st, <<>>, UnwrapNone)
    ELSE Ok(st, <<>>, st.artists[id].account_id)

\* Whether buy(id) with this value gets as far as its two outbound transfers,
\* the only place where the environment's answer is asked for.
PaymentReached(st, id, value) ==
    /\ st.tokens[id].kind = "ForSale"
    /\ st.artists[st.tokens[id].artist] # NoArtist
    /\ value = st.tokens[id].price

\* buy with the bug of also selling an Owned token at its stored price.
buy_body_buys_owned(st, caller, id, value, xfer) ==
    LET token == st.tokens[id] IN
    IF token = NoToken THEN Abort(st, <<>>, UnwrapNone)
    ELSE IF token.kind = "ForSale" THEN
        LET acct == artist_account_body(st, token.artist) IN
        IF acct.outcome = "abort" THEN acct
        ELSE IF value # token.price THEN Abort(st, <<>>, "Incorrect price")
        ELSE
            LET artist_share == value \div 10
                buyer_share == value - artist_share
                st1 == [st EXCEPT !.tokens[id] = Owned(0, caller)]
                pay1 == Payment(acct.ret, artist_share)
                pay2 == Payment(caller, buyer_share)
            IN  IF xfer = "artist_fails"
                THEN Abort(st1, <<>>, "Transfer to artist failed")
                ELSE IF xfer = "buyer_fails"
                THEN Abort(st1, <<pay1>>, "Transfer to buyer failed")
                ELSE Ok(st1, <<pay1, pay2>>, NoRet)
    ELSE IF value = token.price
         THEN Ok([st EXCEPT !.tokens[id] = Owned(0, caller)],
                 <<Payment(token.owner, value)>>, NoRet)
         ELSE Rejected(st, "Buy not allowed")

\* buy with the bug of discarding the results of the two outbound transfers
\* instead of calling expect on them.
buy_body_ignores_transfer_failure(st, caller, id, value, xfer) ==
    LET token == st.tokens[id] IN
    IF token = NoToken THEN Abort(st, <<>>, UnwrapNone)
    ELSE IF token.kind = "ForSale" THEN
        LET acct == artist_account_body(st, token.artist) IN
        IF acct.outcome = "abort" THEN acct
        ELSE IF value # token.price THEN Abort(st, <<>>, "Incorrect price")
        ELSE
            LET artist_share == value \div 10
                buyer_share == value - artist_share
                st1 == [st EXCEPT !.tokens[id] = Owned(0, caller)]
                pay1 == Payment(acct.ret, artist_share)
                pay2 == Payment(caller, buyer_share)
            IN  IF xfer = "artist_fails"
                THEN Ok(st1, <<pay2>>, NoRet)
                ELSE IF xfer = "buyer_fails"
                THEN Ok(st1, <<pay1>>, NoRet)
                ELSE Ok(st1, <<pay1, pay2>>, NoRet)
    ELSE Rejected(st, "Buy not allowed")

\* buy with the bug of keeping the asking price on the bought record.
buy_body_keeps_price(st, caller, id, value, xfer) ==
    LET token == st.tokens[id] IN
    IF token = NoToken THEN Abort(st, <<>>, UnwrapNone)
    ELSE IF token.kind = "ForSale" THEN
        LET acct == artist_account_body(st, token.artist) IN
        IF acct.outcome = "abort" THEN acct
        ELSE IF value # token.price THEN Abort(st, <<>>, "Incorrect price")
        ELSE
            LET artist_share == value \div 10
                buyer_share == value - artist_share
                st1 == [st EXCEPT !.tokens[id] = Owned(token.price, caller)]
                pay1 == Payment(acct.ret, artist_share)
                pay2 == Payment(caller, buyer_share)
            IN  IF xfer = "artist_fails"
                THEN Abort(st1, <<>>, "Transfer to artist failed")
                ELSE IF xfer = "buyer_fails"
                THEN Abort(st1, <<pay1>>, "Transfer to buyer failed")
                ELSE Ok(st1, <<pay1, pay2>>, NoRet)
    ELSE Rejected(st, "Buy not allowed")

\* buy with the bug of computing the second share as nine tenths, rounded
\* down, instead of value - artist_share.
buy_body_rounds_both(st, caller, id, value, xfer) ==
    LET token == st.tokens[id] IN
    IF token = NoToken THEN Abort(st, <<>>, UnwrapNone)
    ELSE IF token.kind = "ForSale" THEN
        LET acct == artist_account_body(st, token.artist) IN
        IF acct.outcome = "abort" THEN acct
        ELSE IF value # token.price THEN Abort(st, <<>>, "Incorrect price")
        ELSE
            LET artist_share == value \div 10
                buyer_share == (value * 9) \div 10
                st1 == [st EXCEPT !.tokens[id] = Owned(0, caller)]
                pay1 == Payment(acct.ret, artist_share)
                pay2 == Payment(caller, buyer_share)
            IN  IF xfer = "artist_fails"
                THEN Abort(st1, <<>>, "Transfer to artist failed")
                ELSE IF xfer = "buyer_fails"
                THEN Abort(st1, <<pay1>>, "Transfer to buyer failed")
                ELSE Ok(st1, <<pay1, pay2>>, NoRet)
    ELSE Rejected(st, "Buy not allowed")

\* buy with the bug of accepting a payment above the asking price.
buy_body_accepts_overpayment(st, caller, id, value, xfer) ==
    LET token == st.tokens[id] IN
    IF token = NoToken THEN Abort(st, <<>>, UnwrapNone)
    ELSE IF token.kind = "ForSale" THEN
        LET acct == artist_account_body(st, token.artist) IN
        IF acct.outcome = "abort" THEN acct
        ELSE IF value < token.price THEN Abort(st, <<>>, "Incorrect price")
        ELSE
            LET artist_share == value \div 10
                buyer_share == value - artist_share
                st1 == [st EXCEPT !.tokens[id] = Owned(0, caller)]
                pay1 == Payment(acct.ret, artist_share)
                pay2 == Payment(caller, buyer_share)
            IN  IF xfer = "artist_fails"
                THEN Abort(st1, <<>>, "Transfer to artist failed")
                ELSE IF xfer = "buyer_fails"
                THEN Abort(st1, <<pay1>>, "Transfer to buyer failed")
                ELSE Ok(st1, <<pay1, pay2>>, NoRet)
    ELSE Rejected(st, "Buy not allowed")

\* buy: value is transferred_balance(); xfer is what the environment answers
\* to the two outbound transfers.  The ledger is written before the payments.
buy_body(st, caller, id, value, xfer) ==
    LET token == st.tokens[id] IN
    IF token = NoToken THEN Abort(st, <<>>, UnwrapNone)
    ELSE IF token.kind = "ForSale" THEN
        LET acct == artist_account_body(st, token.artist) IN
        IF acct.outcome = "abort" THEN acct
        ELSE IF value # token.price THEN Abort(st, <<>>, "Incorrect price")
        ELSE
            LET artist_share == value \div 10
                buyer_share == value - artist_share
                st1 == [st EXCEPT !.tokens[id] = Owned(0, caller)]
                pay1 == Payment(acct.ret, artist_share)
                pay2 == Payment(caller, buyer_share)
            IN  IF xfer = "artist_fails"
                THEN Abort(st1, <<>>, "Transfer to artist failed")
                ELSE IF xfer = "buyer_fails"
                THEN Abort(st1, <<pay1>>, "Transfer to buyer failed")
                ELSE Ok(st1, <<pay1, pay2>>, NoRet)
    ELSE Rejected(st, "Buy not allowed")

\* set_artist with the bug of leaving out the assert on the caller.
set_artist_body_unchecked(st, caller, id, name, account_id) ==
    Ok([st EXCEPT !.artists[id] = Artist(name, account_id)], <<>>, NoRet)

\* set_artist with the bug of storing the record at the counter's value
\* instead of the id it was given.
set_artist_body_uses_counter(st, caller, id, name, account_id) ==
    IF caller # account_id
    THEN Abort(st, <<>>, "Only the artist can set their details")
    ELSE Ok([st EXCEPT !.artists[st.next_artist_id] = Artist(name, account_id)],
            <<>>, NoRet)

\* set_artist with the bug of moving the counter past the id it registers.
set_artist_body_advances_counter(st, caller, id, name, account_id) ==
    IF caller # account_id
    THEN Abort(st, <<>>, "Only the artist can set their details")
    ELSE Ok([st EXCEPT !.artists[id] = Artist(name, account_id),
                       !.next_artist_id = IF @ > id THEN @ ELSE id + 1],
            <<>>, NoRet)

set_artist_body(st, caller, id, name, account_id) ==
    IF caller # account_id
    THEN Abort(st, <<>>, "Only the artist can set their details")
    ELSE Ok([st EXCEPT !.artists[id] = Artist(name, account_id)], <<>>, NoRet)

\* get_token with the bug of unwrapping its lookup, as the writing messages do.
get_token_body_unwraps(st, id) ==
    IF st.tokens[id] = NoToken THEN Abort(st, <<>>, UnwrapNone)
    ELSE Ok(st, <<>>, st.tokens[id])

get_token_body(st, id) == Ok(st, <<>>, st.tokens[id])

next_artist_id_body(st) == Ok(st, <<>>, st.next_artist_id)

increment_artist_id_body(st) ==
    Ok([st EXCEPT !.next_artist_id = st.next_artist_id + 1], <<>>, NoRet)

\* The listing operation the tests call (set_for_sale) and lib.rs does not
\* define: the owner's Owned token becomes ForSale at the given price.  The
\* test gives it no artist; which artist the record names is left open.
set_for_sale_body(st, caller, id, price, artist_id) ==
    LET token == st.tokens[id] IN
    IF token = NoToken THEN Abort(st, <<>>, UnwrapNone)
    ELSE IF token.kind = "Owned" /\ token.owner = caller
         THEN Ok([st EXCEPT !.tokens[id] = ForSale(price, artist_id)], <<>>, NoRet)
         ELSE Rejected(st, "Set for sale not allowed")

\* ------------------------------------------------------------ dispatch
\* The end of a call: a call that trapped is reverted by the host (storage
\* and payments); any other call's storage and payments take effect.
Commit(call, r) ==
    /\ last' = [op |-> call.op, caller |-> call.caller, id |-> call.id,
                outcome |-> r.outcome, msg |-> r.msg, ret |-> r.ret]
    /\ IF r.outcome = "abort"
       THEN /\ UNCHANGED <<tokens, artists, next_artist_id>>
            /\ sent' = <<>>
       ELSE /\ tokens' = r.st.tokens
            /\ artists' = r.st.artists
            /\ next_artist_id' = r.st.next_artist_id
            /\ sent' = r.sent

mint(caller, id, price, artist_id) ==
    Commit(Call("mint", caller, id),
           mint_body(Storage, caller, id, price, artist_id))

transfer(caller, id, to) ==
    Commit(Call("transfer", caller, id),
           transfer_body(Storage, caller, id, to))

set_price(caller, id, price) ==
    Commit(Call("set_price", caller, id),
           set_price_body(Storage, caller, id, price))

buy(caller, id, value, xfer) ==
    Commit(Call("buy", caller, id),
           buy_body(Storage, caller, id, value, xfer))

set_artist(caller, id, name, account_id) ==
    Commit(Call("set_artist", caller, id),
           set_artist_body(Storage, caller, id, name, account_id))

artist_account(id) ==
    Commit(Call("artist_account", NoCaller, id),
           artist_account_body(Storage, id))

get_token(id) ==
    Commit(Call("get_token", NoCaller, id),
           get_token_body(Storage, id))

set_token_artist(id, artist_id) ==
    Commit(Call("set_token_artist", NoCaller, id),
           set_token_artist_body(Storage, id, artist_id))

next_artist_id_msg ==
    Commit(Call("next_artist_id", NoCaller, 0),
           next_artist_id_body(Storage))

increment_artist_id ==
    /\ next_artist_id < MaxCounter
    /\ Commit(Call("increment_artist_id", NoCaller, 0),
              increment_artist_id_body(Storage))

set_for_sale(caller, id, price, artist_id) ==
    Commit(Call("set_for_sale", caller, id),
           set_for_sale_body(Storage, caller, id, price, artist_id))

\* ------------------------------------------------------------ specification
\* PSP34::new
Init ==
    /\ tokens = [id \in TokenIds |-> NoToken]
    /\ artists = [id \in ArtistIds |-> NoArtist]
    /\ next_artist_id = 0
    /\ last = [op |-> "new", caller |-> NoCaller, id |-> 0,
               outcome |-> "ok", msg |-> "", ret |-> NoRet]
    /\ sent = <<>>

Next ==
    \/ \E c \in Accounts, id \in TokenIds, p \in Prices, a \in ArtistIds : mint(c, id, p, a)
    \/ \E c \in Accounts, id \in TokenIds, to \in Accounts : transfer(c, id, to)
    \/ \E c \in Accounts, id \in TokenIds, p \in Prices : set_price(c, id, p)
    \/ \E c \in Accounts, id \in TokenIds, v \in Values, x \in XferOutcomes :
          /\ x = "ok" \/ PaymentReached(Storage, id, v)
          /\ buy(c, id, v, x)
    \/ \E c \in Accounts, id \in ArtistIds, n \in Names, acc \in Accounts : set_artist(c, id, n, acc)
    \/ \E id \in ArtistIds : artist_account(id)
    \/ \E id \in TokenIds : get_token(id)
    \/ \E id \in TokenIds, a \in ArtistIds : set_token_artist(id, a)
    \/ next_artist_id_msg
    \/ increment_artist_id

Spec == Init /\ [][Next]_vars

\* The contract together with the listing operation of the tests.
NextSale ==
    \/ Next
    \/ \E c \in Accounts, id \in TokenIds, p \in SalePrices, a \in ArtistIds : set_for_sale(c, id, p, a)

SpecSale == Init /\ [][NextSale]_vars

\* ------------------------------------------------------------ helpers of the claims
IsOwned(id) == tokens[id].kind = "Owned"
IsForSale(id) == tokens[id].kind = "ForSale"

\* The messages that write the token ledger.
TokenMutators == {"mint", "transfer", "set_price", "buy", "set_token_artist"}

\* tests::test_set_artist's lookup artist_account(next_artist_id() - 1).  The
\* subtraction is on a u32: at 0 it panics (overflow checks on) or wraps to
\* u32::MAX (overflow checks off), an id no call of the model registers, and
\* the lookup then panics on its unwrap; either way the call ends in a panic.
artist_at_previous_id(st) ==
    LET artist_id == next_artist_id_body(st).ret IN
    IF artist_id = 0
    THEN Abort(st, <<>>, "attempt to subtract with overflow")
    ELSE artist_account_body(st, artist_id - 1)

\* ------------------------------------------------------------ claims

\* C1: right after mint(id, price, artistRef) called by P, whatever the
\* ledger held at id before, the call has returned normally and
\* get_token(id) returns Owned{price, owner = P}.
MintOwnership ==
    [][last'.op = "mint" =>
        \A p \in Prices, a \in ArtistIds :
            mint(last'.caller, last'.id, p, a) =>
                /\ last'.outcome = "ok"
                /\ get_token_body(Storage', last'.id).ret = Owned(p, last'.caller)]_vars

\* C1 witness: a mint at the tests' price has completed and the token is the
\* caller's.
MintOwnershipWitness ==
    /\ last.op = "mint"
    /\ last.outcome = "ok"
    /\ tokens[last.id] = Owned(TestPrice, last.caller)
    /\ last.caller = "caller2"

AuthorizationOnEveryMutation ==
    [][\A id \in TokenIds :
        (/\ IsOwned(id)
         /\ last'.op \in TokenMutators
         /\ last'.caller # tokens[id].owner)
        => tokens'[id] = tokens[id]]_vars

\* No message of lib.rs makes a ForSale record: every minted token is Owned.
NeverListed == \A id \in TokenIds : ~IsForSale(id)

\* C4: a minted token can move from Owned to Listed through the
\* artist-association operation: in every state, an Owned token has a
\* set_token_artist call that leaves it ForSale.
OwnedCanBeListed ==
    \A id \in TokenIds :
        IsOwned(id) =>
            ENABLED (\E a \in ArtistIds :
                        set_token_artist(id, a) /\ tokens'[id].kind = "ForSale")

BuyPaymentSplit ==
    [][(/\ last'.op = "buy"
        /\ IsForSale(last'.id)
        /\ artists[tokens[last'.id].artist] # NoArtist)
       => LET V == tokens[last'.id].price
              payout == artists[tokens[last'.id].artist].account_id
          IN  buy(last'.caller, last'.id, V, "ok")
                => /\ Len(sent') = 2
                   /\ sent'[1] = Payment(payout, V \div 10)
                   /\ sent'[2] = Payment(last'.caller, V - (V \div 10))
                   /\ sent'[1].amount + sent'[2].amount = V
                   /\ sent'[1].amount >= 0 /\ sent'[2].amount >= 0
                   /\ V = 100 => (sent'[1].amount = 10 /\ sent'[2].amount = 90)]_vars

\* C6 witness: a buy at a price that 10 does not divide has paid 1 to the
\* artist's account and 14 to the buyer, two different accounts.
BuyPaymentSplitWitness ==
    /\ last.op = "buy"
    /\ last.outcome = "ok"
    /\ Len(sent) = 2
    /\ sent[1].amount = 1
    /\ sent[2] = Payment(last.caller, 14)
    /\ sent[1].to # last.caller

\* C7: on a token Listed{V, a}, buy(id) with an attached value other than V
\* aborts: the ledger, the registry and the counter are unchanged and no
\* outbound transfer is made.
BuyPriceMismatchAborts ==
    [][(last'.op = "buy" /\ IsForSale(last'.id)) =>
        \A v \in Values \ {tokens[last'.id].price}, x \in XferOutcomes :
            buy(last'.caller, last'.id, v, x) =>
                /\ last'.outcome = "abort"
                /\ UNCHANGED <<tokens, artists, next_artist_id>>
                /\ sent' = <<>>]_vars

\* C7 witness: a buy of a Listed token with a registered artist has aborted
\* on the price assertion and the token is still Listed.
BuyPriceMismatchWitness ==
    /\ last.op = "buy"
    /\ last.outcome = "abort"
    /\ last.msg = "Incorrect price"
    /\ IsForSale(last.id)
    /\ artists[tokens[last.id].artist] # NoArtist

\* C8: set_artist(id, name, accountId) called by accountId makes artists[id]
\* {name, accountId}; called by anyone else it aborts and artists[id] is
\* unchanged.
SetArtistSelfOnly ==
    [][last'.op = "set_artist" =>
        \A n \in Names, acc \in Accounts :
            set_artist(last'.caller, last'.id, n, acc) =>
                IF last'.caller = acc
                THEN /\ last'.outcome = "ok"
                     /\ artists'[last'.id] = Artist(n, acc)
                ELSE /\ last'.outcome = "abort"
                     /\ artists'[last'.id] = artists[last'.id]]_vars

\* C8 witness: a set_artist call has aborted on its assertion at an id that
\* was never set, and the id is still absent.
SetArtistSelfOnlyWitness ==
    /\ last.op = "set_artist"
    /\ last.outcome = "abort"
    /\ last.msg = "Only the artist can set their details"
    /\ artists[last.id] = NoArtist
    /\ \E id \in ArtistIds : artists[id] # NoArtist

\* C9: once artists[id] has account_id = P, no set_artist call made by a
\* principal other than P changes the record stored at id.
ArtistRecordOwnerOnly ==
    [][\A id \in ArtistIds :
        (/\ artists[id] # NoArtist
         /\ last'.op = "set_artist"
         /\ last'.caller # artists[id].account_id)
        => artists'[id] = artists[id]]_vars

\* C10: after a successful set_artist(id, name, caller),
\* artist_account(next_artist_id() - 1) returns the caller's account.
SetArtistFoundAtPreviousId ==
    (last.op = "set_artist" /\ last.outcome = "ok") =>
        /\ artist_at_previous_id(Storage).outcome = "ok"
        /\ artist_at_previous_id(Storage).ret = last.caller

\* C11: a buy of a ForSale token called by the principal who has just put it
\* up for sale does not purchase it: the record stays ForSale with the same
\* price and artist.
SellerCannotBuy ==
    [][(/\ last.op = "set_for_sale"
        /\ last.outcome = "ok"
        /\ last'.op = "buy"
        /\ last'.id = last.id
        /\ last'.caller = last.caller)
       => tokens'[last.id] = tokens[last.id]]_vars

\* C12: a token id is in the ledger exactly from the first completed
\* mint(id, ..) on: every id is absent after construction, an absent id
\* becomes present only by a completed mint of that id, a completed mint
\* leaves its id present, a present id is present after every call, and
\* get_token returns the stored record, or the empty result for an absent
\* id, without aborting or changing storage.
TokensOnlyFromMint ==
    [][/\ last.op = "new" => \A id \in TokenIds : tokens[id] = NoToken
       /\ \A id \in TokenIds :
            /\ tokens[id] # NoToken => tokens'[id] # NoToken
            /\ (tokens[id] = NoToken /\ tokens'[id] # NoToken)
                  => (last'.op = "mint" /\ last'.id = id /\ last'.outcome = "ok")
       /\ last'.op = "mint" => (last'.outcome = "ok" /\ tokens'[last'.id] # NoToken)
       /\ last'.op = "get_token"
            => /\ last'.outcome = "ok"
               /\ last'.ret = tokens[last'.id]
               /\ UNCHANGED <<tokens, artists, next_artist_id>>]_vars

\* C12 witness: get_token on a never-minted id has returned the empty result
\* while the other id is in the ledger.
TokensOnlyFromMintWitness ==
    /\ last.op = "get_token"
    /\ last.outcome = "ok"
    /\ last.ret = NoToken
    /\ tokens[last.id] = NoToken
    /\ \E id \in TokenIds : tokens[id] # NoToken

\* C13: while a token is Owned by P, no set_price call by a principal other
\* than P, with any id and any value, changes the token's price or owner;
\* so no number of such calls does.
SetPriceByNonOwner ==
    [][\A id \in TokenIds :
        (/\ IsOwned(id)
         /\ last'.op = "set_price"
         /\ last'.caller # tokens[id].owner)
        => tokens'[id] = tokens[id]]_vars

\* C13 witness: a set_price call by a principal who is not the owner has been
\* rejected and the token still has its minted price.
SetPriceByNonOwnerWitness ==
    /\ last.op = "set_price"
    /\ last.outcome = "rejected"
    /\ IsOwned(last.id)
    /\ tokens[last.id].owner # last.caller
    /\ tokens[last.id].price = TestPrice

SetPriceByOwner ==
    [][(/\ last'.op = "set_price"
        /\ IsOwned(last'.id)
        /\ tokens[last'.id].owner = last'.caller)
       => \A x \in Prices :
            set_price(last'.caller, last'.id, x)
              => /\ last'.outcome = "ok"
                 /\ tokens'[last'.id] = Owned(x, last'.caller)]_vars

\* C19 witness: a set_price call by the owner has completed and the record is
\* Owned with price 0 and the caller as owner.
SetPriceByOwnerWitness ==
    /\ last.op = "set_price"
    /\ last.outcome = "ok"
    /\ tokens[last.id] = Owned(0, last.caller)

\* C15: transfer and set_price on a ForSale token, and buy on an Owned token,
\* return normally for every caller (the owner included) and every attached
\* value, leave ledger, registry and counter unchanged, and send nothing.
WrongVariantIsNoOp ==
    [][(\/ last'.op \in {"transfer", "set_price"} /\ IsForSale(last'.id)
        \/ last'.op = "buy" /\ IsOwned(last'.id))
       => /\ last'.outcome = "rejected"
          /\ UNCHANGED <<tokens, artists, next_artist_id>>
          /\ sent' = <<>>]_vars

\* C15 witness: the owner's own buy of their Owned token has returned
\* without effect.
WrongVariantIsNoOpWitness ==
    /\ last.op = "buy"
    /\ last.outcome = "rejected"
    /\ IsOwned(last.id)
    /\ tokens[last.id].owner = last.caller

\* C15 witness for the other direction: a transfer of a ForSale token has
\* returned without effect.
WrongVariantTransferWitness ==
    /\ last.op = "transfer"
    /\ last.outcome = "rejected"
    /\ IsForSale(last.id)

NoPartialSettlement ==
    [][last'.op = "buy" =>
        /\ \A x \in {"artist_fails", "buyer_fails"} :
             (/\ PaymentReached(Storage, last'.id, tokens[last'.id].price)
              /\ buy(last'.caller, last'.id, tokens[last'.id].price, x))
             => /\ last'.outcome = "abort"
                /\ UNCHANGED <<tokens, artists, next_artist_id>>
                /\ tokens'[last'.id].kind = "ForSale"
                /\ sent' = <<>>
        /\ (tokens' # tokens \/ sent' # <<>>)
             => /\ last'.outcome = "ok"
                /\ tokens'[last'.id] = Owned(0, last'.caller)
                /\ Len(sent') = 2]_vars

\* C17 witness: a buy whose second transfer, the one to the buyer, failed has
\* aborted, the token is still ForSale and nothing has been sent.
NoPartialSettlementWitness ==
    /\ last.op = "buy"
    /\ last.outcome = "abort"
    /\ last.msg = "Transfer to buyer failed"
    /\ IsForSale(last.id)
    /\ sent = <<>>

\* C18: set_token_artist(id, a) on ForSale{price, old} makes the record
\* ForSale{price, a}; on an Owned token it changes nothing; it never changes
\* a token's variant, owner or price.
SetTokenArtistOnlyArtist ==
    [][(last'.op = "set_token_artist" /\ tokens[last'.id] # NoToken) =>
        /\ \A a \in ArtistIds :
             set_token_artist(last'.id, a) =>
                 IF IsForSale(last'.id)
                 THEN tokens'[last'.id] = ForSale(tokens[last'.id].price, a)
                 ELSE tokens'[last'.id] = tokens[last'.id]
        /\ \A id \in TokenIds :
             /\ tokens'[id].kind = tokens[id].kind
             /\ tokens[id] # NoToken => tokens'[id].price = tokens[id].price
             /\ IsOwned(id) => tokens'[id].owner = tokens[id].owner]_vars

\* C18 witness: set_token_artist has completed on a ForSale token that was
\* listed at a price other than 0 and 100, and the record names artist 1.
SetTokenArtistOnlyArtistWitness ==
    /\ last.op = "set_token_artist"
    /\ last.outcome = "ok"
    /\ tokens[last.id] = ForSale(15, 1)

====
